---- MODULE Spec2Model ----
(***************************************************************************)
(* Centurio: per-site theme overrides.                                     *)
(*   src/entrypoints/shared/theme.ts  - ThemeSettings and normalizeSettings *)
(*   src/entrypoints/popup/App.tsx    - the popup that edits the settings   *)
(*                                      (lines 1-184) and the content       *)
(*                                      script that resolves them against   *)
(*                                      the page and writes the DOM         *)
(*                                      (lines 186-366)                     *)
(***************************************************************************)
EXTENDS Integers, Sequences, FiniteSets, Bags, TLC

VARIABLES
    raw,            \* normalizeSettings: the value handed to it
    normalized,     \* normalizeSettings(raw), NotRun before the call
    renormalized,   \* normalizeSettings(normalized), NotRun before the call
    location,       \* window.location of the page: [hostname, host]
    page,           \* the page's current computed backgrounds: [body, root]
    prefersDark,    \* prefersDark.matches
    store,          \* browser.storage.local[STORAGE_KEY], a JavaScript value
    started,        \* start() has run
    baselineIsDark, \* the module-level memo: JsNull, TRUE or FALSE
    notifications,  \* storage.onChanged events in flight to the content script
    requested,      \* storage.local.get calls the backend has not answered yet
    served,         \* answers of storage.local.get whose continuation has not run
    dom,            \* [scheme, invert, styles]: the two root attributes and the
                    \* number of elements with id STYLE_ID
    last,           \* the most recent resolution pass: what it was given, what it
                    \* found and the DOM writes it made (NoPass before the first)
    popup,          \* the App component: its React state, the position of its
                    \* two loads and the change events in flight to its listener
    written         \* the most recent user action in the popup: what the popup
                    \* held, what the store held and what was written

vars == <<raw, normalized, renormalized, location, page, prefersDark, store,
          started, baselineIsDark, notifications, requested, served, dom, last,
          popup, written>>

normVars == <<raw, normalized, renormalized>>
scriptVars == <<location, page, prefersDark, store, started, baselineIsDark,
                notifications, requested, served, dom, last>>
popupVars == <<popup, written>>

(***************************************************************************)
(* JavaScript values.  Every value is a record tagged with its typeof; an  *)
(* object carries its class and its own enumerable properties.             *)
(***************************************************************************)
Undefined == [t |-> "undefined"]
JsNull == [t |-> "null"]
Str(s) == [t |-> "string", s |-> s]
Num(n) == [t |-> "number", n |-> n]
Obj(props) == [t |-> "object", cls |-> "Object", props |-> props]
Arr(props) == [t |-> "object", cls |-> "Array", props |-> props]
NoProps == [k \in {} |-> Undefined]

\* What a plain object inherits from Object.prototype under the keys used here:
\* the constructor function, and the __proto__ accessor (which reads as
\* Object.prototype itself).
ObjectCtor == [t |-> "function", name |-> "Object"]
ObjectPrototypeRef == [t |-> "object", cls |-> "Object.prototype", props |-> NoProps]
InheritedKeys == {"constructor", "__proto__"}
Inherited(k) == IF k = "constructor" THEN ObjectCtor ELSE ObjectPrototypeRef

\* value[k]: the own property, else the inherited one, else undefined.
Get(value, k) ==
    IF value.t = "object" /\ value.cls \in {"Object", "Array"}
    THEN IF k \in DOMAIN value.props THEN value.props[k]
         ELSE IF k \in InheritedKeys THEN Inherited(k)
         ELSE Undefined
    ELSE Undefined

\* props after obj[k] = v on a plain object for a string v: an ordinary key
\* becomes an own property; "__proto__" reaches the inherited setter, which
\* ignores a value that is neither an object nor null.
SetProp(props, k, v) ==
    IF k = "__proto__" THEN props
    ELSE [x \in DOMAIN props \cup {k} |-> IF x = k THEN v ELSE props[x]]

\* ToBoolean, as `!x` and `a || b` use it.
Truthy(v) ==
    CASE v.t = "undefined" -> FALSE
      [] v.t = "null" -> FALSE
      [] v.t = "string" -> v.s # ""
      [] v.t = "number" -> v.n # 0
      [] OTHER -> TRUE

\* String(v), as setAttribute applies it to its value argument, for the values
\* that reach it: strings, the inherited function and the inherited object.
JsString(v) ==
    CASE v.t = "string" -> v.s
      [] v.t = "function" -> "function Object() { [native code] }"
      [] v.t = "object" -> "[object Object]"
      [] OTHER -> v.t

(***************************************************************************)
(* theme.ts                                                                *)
(***************************************************************************)
STORAGE_KEY == "centurio:theme-settings"

defaultSettings ==
    Obj([k \in {"defaultMode", "siteOverrides"} |->
            IF k = "defaultMode" THEN Str("system") ELSE Obj(NoProps)])

isRecord(value) == value.t = "object"

\* Mutant of isThemeMode: any string passes.
isThemeModeAnyString(value) == value.t = "string"

isThemeMode(value) ==
    value.t = "string" /\ value.s \in {"light", "dark", "system"}

\* Mutant of CopyValidEntries: the assignment of line 34 with key and value swapped.
RECURSIVE CopyEntriesSwapped(_, _, _)
CopyEntriesSwapped(entries, keys, acc) ==
    IF keys = {} THEN acc
    ELSE LET hostname == CHOOSE k \in keys : TRUE
             mode == entries[hostname]
         IN CopyEntriesSwapped(entries, keys \ {hostname},
                IF mode.t = "string" /\ mode.s \in {"light", "dark", "system"}
                THEN SetProp(acc, mode.s, Str(hostname)) ELSE acc)

\* The loop of lines 32-36 over Object.entries(entries), accumulating into acc.
RECURSIVE CopyValidEntries(_, _, _)
CopyValidEntries(entries, keys, acc) ==
    IF keys = {} THEN acc
    ELSE LET hostname == CHOOSE k \in keys : TRUE
             mode == entries[hostname]
         IN CopyValidEntries(entries, keys \ {hostname},
                IF isThemeMode(mode) THEN SetProp(acc, hostname, mode) ELSE acc)

normalizeSettings(value) ==
    IF ~isRecord(value) THEN defaultSettings
    ELSE LET defaultMode ==
                 IF isThemeMode(Get(value, "defaultMode"))
                 THEN Get(value, "defaultMode")
                 ELSE Get(defaultSettings, "defaultMode")
             given == Get(value, "siteOverrides")
             siteOverrides ==
                 IF isRecord(given)
                 THEN CopyValidEntries(given.props, DOMAIN given.props, NoProps)
                 ELSE NoProps
         IN Obj([k \in {"defaultMode", "siteOverrides"} |->
                    IF k = "defaultMode" THEN defaultMode ELSE Obj(siteOverrides)])

(***************************************************************************)
(* The values normalizeSettings is checked on: what the settings store can *)
(* hand back for STORAGE_KEY.                                              *)
(***************************************************************************)
MaxEntries == 2

NotRun == [t |-> "notrun"]

LeafValues ==
    {Str("light"), Str("dark"), Str("system"), Str("blue"), Num(1), JsNull}

KeyPool == {"docs.example", "constructor", "__proto__", ""}

IndexKeys == <<"0", "1", "2", "3">>

\* An array's own enumerable properties are its indices.
ArrayOf(items) == Arr([k \in {IndexKeys[i] : i \in 1..Len(items)} |->
                        items[CHOOSE i \in 1..Len(items) : IndexKeys[i] = k]])

LeafArrays ==
    {ArrayOf(items) : items \in UNION {[1..n -> LeafValues] : n \in 0..MaxEntries}}

LeafObjects ==
    {Obj(f) : f \in UNION {[K -> LeafValues] :
                              K \in {S \in SUBSET KeyPool : Cardinality(S) <= MaxEntries}}}

RawOverrides ==
    LeafObjects \cup LeafArrays \cup {Str("not-an-object"), JsNull, Num(1)}

RawSettings ==
    {Undefined, JsNull, Str("dark"), Num(1)}
      \cup LeafArrays
      \cup {Obj(NoProps)}
      \cup {Obj([k \in {"defaultMode"} |-> dm]) : dm \in LeafValues}
      \cup {Obj([k \in {"siteOverrides"} |-> so]) : so \in RawOverrides}
      \cup {Obj([k \in {"defaultMode", "siteOverrides"} |->
                    IF k = "defaultMode" THEN dm ELSE so]) :
                dm \in LeafValues, so \in RawOverrides}

(***************************************************************************)
(* App.tsx, the content script (lines 186-366).                            *)
(***************************************************************************)
Bool(b) == [t |-> "boolean", b |-> b]

\* A computed background-color string, by what parseColor's pattern reads of it:
\* its notation, its three channels and its alpha in hundredths.
Rgb(r, g, b) == [fmt |-> "rgb", r |-> r, g |-> g, b |-> b, a |-> 100]
Rgba(r, g, b, a) == [fmt |-> "rgba", r |-> r, g |-> g, b |-> b, a |-> a]
Unparsed == [fmt |-> "other", r |-> 0, g |-> 0, b |-> 0, a |-> 100]
NoColor == [fmt |-> "null", r |-> 0, g |-> 0, b |-> 0, a |-> 0]

parseColor(value) ==
    IF value.fmt \in {"rgb", "rgba"}
    THEN [fmt |-> "Rgb", r |-> value.r, g |-> value.g, b |-> value.b,
          a |-> IF value.fmt = "rgb" THEN 100 ELSE value.a]
    ELSE NoColor

\* Math.pow((c / 255 + 0.055) / 1.055, 2.4) in ten-thousandths, for the channel
\* values the pages below use.
PowChannel(c) ==
    CASE c = 11 -> 33
      [] c = 128 -> 2159
      [] c = 187 -> 4969
      [] c = 188 -> 5029
      [] c = 255 -> 10000
      [] OTHER -> 0

\* One channel linearized, in ten-thousandths: c / 255 <= 0.03928 is c <= 10.
Linearize(c) ==
    IF c * 100000 <= 3928 * 255
    THEN (c * 1000000) \div (255 * 1292)
    ELSE PowChannel(c)

\* relativeLuminance in units of 10^-8.
relativeLuminance(color) ==
    2126 * Linearize(color.r) + 7152 * Linearize(color.g) + 722 * Linearize(color.b)

\* Mutant of getReadableBackground: the alpha tests of lines 326 and 333 are >=.
getReadableBackgroundInclusive(p) ==
    LET bodyColor == IF p.body.fmt = "null" THEN NoColor ELSE parseColor(p.body)
        rootColor == parseColor(p.root)
    IN IF bodyColor.fmt # "null" /\ bodyColor.a >= 5 THEN bodyColor
       ELSE IF rootColor.fmt # "null" /\ rootColor.a >= 5 THEN rootColor
       ELSE NoColor

\* p.body is NoColor when the document has no body.
getReadableBackground(p) ==
    LET bodyColor == IF p.body.fmt = "null" THEN NoColor ELSE parseColor(p.body)
        rootColor == parseColor(p.root)
    IN IF bodyColor.fmt # "null" /\ bodyColor.a > 5 THEN bodyColor
       ELSE IF rootColor.fmt # "null" /\ rootColor.a > 5 THEN rootColor
       ELSE NoColor

computePageIsDark(p) ==
    LET found == getReadableBackground(p)
        background == IF found.fmt # "null" THEN found
                      ELSE [fmt |-> "Rgb", r |-> 255, g |-> 255, b |-> 255, a |-> 100]
    IN relativeLuminance(background) < 50000000

\* The DOM the script writes: root.getAttribute(SCHEME_ATTR),
\* root.getAttribute(INVERT_ATTR), and how many elements carry id STYLE_ID.
\* A handler run threads m = [dom, writes]: the DOM and the calls made on it.
NoDom == [scheme |-> JsNull, invert |-> JsNull, styles |-> 0]

Call(m, op, target) ==
    Append(m.writes, [op |-> op, target |-> target, styles |-> m.dom.styles])

setAttribute(m, name, value) ==
    [dom |-> [m.dom EXCEPT ![name] = Str(JsString(value))],
     writes |-> Call(m, "setAttribute", name)]

removeAttribute(m, name) ==
    [dom |-> [m.dom EXCEPT ![name] = JsNull],
     writes |-> Call(m, "removeAttribute", name)]

\* Mutant of ensureStyleElement: the getElementById guard of line 289 is missing.
ensureStyleElementUnguarded(m) ==
    [dom |-> [m.dom EXCEPT !.styles = @ + 1],
     writes |-> Call(m, "appendChild", "style")]

ensureStyleElement(m) ==
    IF m.dom.styles > 0 THEN m
    ELSE [dom |-> [m.dom EXCEPT !.styles = @ + 1],
          writes |-> Call(m, "appendChild", "style")]

\* Mutant of applyTheme: a fresh style element is injected on every application.
applyThemeInjecting(m, scheme, invert) ==
    LET m1 == [dom |-> [m.dom EXCEPT !.styles = @ + 1],
               writes |-> Call(m, "appendChild", "style")]
        m2 == setAttribute(m1, "scheme", scheme)
    IN setAttribute(m2, "invert", Str(IF invert THEN "true" ELSE "false"))

applyTheme(m, scheme, invert) ==
    LET m1 == ensureStyleElement(m)
        m2 == setAttribute(m1, "scheme", scheme)
    IN setAttribute(m2, "invert", Str(IF invert THEN "true" ELSE "false"))

clearTheme(m) ==
    LET m1 == removeAttribute(m, "scheme")
        m2 == removeAttribute(m1, "invert")
    IN IF m2.dom.styles > 0
       THEN [dom |-> [m2.dom EXCEPT !.styles = @ - 1],
             writes |-> Call(m2, "remove", "style")]
       ELSE m2

\* Mutant of resolveScheme: the OS preference decides whatever the mode.
resolveSchemeFromSystem(mode) ==
    IF prefersDark THEN Str("dark") ELSE Str("light")

resolveScheme(mode) ==
    IF mode.t = "string" /\ mode.s = "system"
    THEN (IF prefersDark THEN Str("dark") ELSE Str("light"))
    ELSE mode

shouldInvert(scheme, pageIsDark) ==
    IF scheme.t = "string" /\ scheme.s = "dark" THEN ~pageIsDark ELSE pageIsDark

\* Mutant of applyThemeFromSettings: line 257 samples the page on every pass.
applyThemeFromSettingsSampling(settings) ==
    LET m == [dom |-> dom, writes |-> <<>>]
        hostname == IF location.hostname # "" THEN location.hostname ELSE location.host
        siteMode == Get(Get(settings, "siteOverrides"), hostname)
        targetScheme == resolveScheme(siteMode)
        invert == shouldInvert(targetScheme, computePageIsDark(page))
    IN IF hostname = "" THEN [m |-> clearTheme(m), sampled |-> FALSE]
       ELSE IF ~Truthy(siteMode) THEN [m |-> clearTheme(m), sampled |-> FALSE]
       ELSE [m |-> applyTheme(m, targetScheme, invert), sampled |-> TRUE]

\* Mutant of applyThemeFromSettings: the empty-hostname return of lines 245-248
\* is missing.
applyThemeFromSettingsAnyHost(settings) ==
    LET m == [dom |-> dom, writes |-> <<>>]
        hostname == IF location.hostname # "" THEN location.hostname ELSE location.host
        siteMode == Get(Get(settings, "siteOverrides"), hostname)
        targetScheme == resolveScheme(siteMode)
        pageIsDark == IF baselineIsDark.t # "null" THEN baselineIsDark.b
                      ELSE computePageIsDark(page)
        invert == shouldInvert(targetScheme, pageIsDark)
    IN IF ~Truthy(siteMode) THEN [m |-> clearTheme(m), sampled |-> FALSE]
       ELSE [m |-> applyTheme(m, targetScheme, invert),
             sampled |-> baselineIsDark.t = "null"]

\* applyThemeFromSettings on the current DOM: the DOM after it, the calls it made,
\* and whether line 257 had to sample the page.
applyThemeFromSettings(settings) ==
    LET m == [dom |-> dom, writes |-> <<>>]
        hostname == IF location.hostname # "" THEN location.hostname ELSE location.host
        siteMode == Get(Get(settings, "siteOverrides"), hostname)
        targetScheme == resolveScheme(siteMode)
        pageIsDark == IF baselineIsDark.t # "null" THEN baselineIsDark.b
                      ELSE computePageIsDark(page)
        invert == shouldInvert(targetScheme, pageIsDark)
    IN IF hostname = "" THEN [m |-> clearTheme(m), sampled |-> FALSE]
       ELSE IF ~Truthy(siteMode) THEN [m |-> clearTheme(m), sampled |-> FALSE]
       ELSE [m |-> applyTheme(m, targetScheme, invert),
             sampled |-> baselineIsDark.t = "null"]

\* One resolution pass started by `handler` with `settings`, as `last` records it.
Pass(handler, settings) ==
    LET r == applyThemeFromSettings(settings)
    IN [handler |-> handler, settings |-> settings, prefersDark |-> prefersDark,
        sampled |-> r.sampled, before |-> dom, after |-> r.m.dom,
        writes |-> r.m.writes]

NoPass ==
    [handler |-> "none", settings |-> Undefined, prefersDark |-> FALSE,
     sampled |-> FALSE, before |-> NoDom, after |-> NoDom, writes |-> <<>>]

\* onStorageChanged(changes, area): the pass it runs, NoPass when it returns early.
onStorageChanged(changes, area) ==
    IF area # "local" \/ ~Truthy(Get(changes, STORAGE_KEY)) THEN NoPass
    ELSE Pass("onStorageChanged",
              normalizeSettings(Get(Get(changes, STORAGE_KEY), "newValue")))

\* The continuation of applyFromStorage after its await, given stored[STORAGE_KEY].
applyFromStorage(stored) ==
    Pass("applyFromStorage", normalizeSettings(stored))

(***************************************************************************)
(* The environment of one page load.                                       *)
(***************************************************************************)
MaxNotifications == 2
MaxReads == 1

Locations ==
    {[hostname |-> "docs.example", host |-> "docs.example:8080"],
     [hostname |-> "constructor", host |-> "constructor"],
     [hostname |-> "", host |-> ""]}

WhitePage == [body |-> Rgb(255, 255, 255), root |-> Rgba(0, 0, 0, 0)]
DarkPage == [body |-> Rgb(10, 10, 10), root |-> Rgba(0, 0, 0, 0)]
Pages == {WhitePage, DarkPage}

Settings(defaultMode, overrides) ==
    Obj([k \in {"defaultMode", "siteOverrides"} |->
            IF k = "defaultMode" THEN Str(defaultMode) ELSE Obj(overrides)])

\* An override for docs.example, and the same entry under the empty-string key.
Override(mode) == [k \in {"docs.example", ""} |-> Str(mode)]

\* Undefined: nothing is stored under STORAGE_KEY.
StoreValues ==
    {Undefined,
     Settings("light", Override("dark")),
     Settings("dark", Override("light")),
     Settings("light", Override("system"))}

\* The storage.onChanged event of a write of v (of a removal when v is undefined).
ChangeEvent(area, key, v) ==
    [area |-> area,
     changes |-> Obj([k \in {key} |->
                        IF v.t = "undefined" THEN Obj(NoProps)
                        ELSE Obj([n \in {"newValue"} |-> v])])]

\* The popup before it is opened: the initial React state of lines 12-14, no
\* load started, no listener registered.
ClosedPopup ==
    [mounted |-> FALSE, settings |-> defaultSettings, activeHost |-> JsNull,
     isReady |-> FALSE, loadSettings |-> "idle", stored |-> Undefined,
     loadActiveHost |-> "idle", changes |-> <<>>]

NoWrite ==
    [action |-> "none", mode |-> "", enabled |-> FALSE, settings |-> defaultSettings,
     activeHost |-> JsNull, stored |-> Undefined, next |-> Undefined,
     actions |-> 0, external |-> 0]

InitScript ==
    /\ location \in Locations
    /\ page \in Pages
    /\ prefersDark \in BOOLEAN
    /\ store \in StoreValues
    /\ started = FALSE
    /\ baselineIsDark = JsNull
    /\ notifications = <<>>
    /\ requested = 0
    /\ served = EmptyBag
    /\ dom = NoDom
    /\ last = NoPass

Init ==
    /\ raw = Undefined
    /\ normalized = NotRun
    /\ renormalized = NotRun
    /\ InitScript
    /\ popup = ClosedPopup
    /\ written = NoWrite

Reads == requested + BagCardinality(served)

\* main() and start(), lines 203-217: sample the page once, call applyFromStorage
\* (which suspends at its await), register both listeners.
Start ==
    /\ ~started
    /\ started' = TRUE
    /\ baselineIsDark' = IF baselineIsDark.t = "null"
                         THEN Bool(computePageIsDark(page)) ELSE baselineIsDark
    /\ requested' = requested + 1
    /\ UNCHANGED <<location, page, prefersDark, store, notifications, served,
                   dom, last>>

\* Somebody (the popup, another tab) writes or removes STORAGE_KEY; the store
\* queues a change event for the listener once start() has registered it.
StoreSet(v) ==
    /\ v # store
    /\ started => Len(notifications) < MaxNotifications
    /\ store' = v
    /\ notifications' = IF started
                        THEN Append(notifications, ChangeEvent("local", STORAGE_KEY, v))
                        ELSE notifications
    /\ UNCHANGED <<location, page, prefersDark, started, baselineIsDark,
                   requested, served, dom, last>>

\* The listener of line 209 runs on a run of the handler that applies `pass`.
Handled(pass) ==
    IF pass.handler = "none"
    THEN UNCHANGED <<dom, last>>
    ELSE dom' = pass.after /\ last' = pass

\* The oldest queued change event reaches onStorageChanged.
StorageChanged ==
    /\ notifications # <<>>
    /\ Handled(onStorageChanged(Head(notifications).changes,
                                Head(notifications).area))
    /\ notifications' = Tail(notifications)
    /\ UNCHANGED <<location, page, prefersDark, store, started, baselineIsDark,
                   requested, served>>

\* A change of another storage area, or of another key, reaches onStorageChanged.
OtherStorageChanged(area, key) ==
    /\ started
    /\ area # "local" \/ key # STORAGE_KEY
    /\ LET e == ChangeEvent(area, key, Str("x"))
       IN Handled(onStorageChanged(e.changes, e.area))
    /\ UNCHANGED <<location, page, prefersDark, store, started, baselineIsDark,
                   notifications, requested, served>>

\* Mutant of SystemSchemeChange: the change listener of line 211 is not
\* registered, so a flip of the OS preference starts no handler run.
SystemSchemeChangeUnheard ==
    /\ started => Reads < MaxReads
    /\ prefersDark' = ~prefersDark
    /\ UNCHANGED <<location, page, store, started, baselineIsDark, notifications,
                   requested, served, dom, last>>

\* The OS preference flips; once registered, onSystemSchemeChange calls
\* applyFromStorage, which suspends at its await.
SystemSchemeChange ==
    /\ started => Reads < MaxReads
    /\ prefersDark' = ~prefersDark
    /\ requested' = IF started THEN requested + 1 ELSE requested
    /\ UNCHANGED <<location, page, store, started, baselineIsDark, notifications,
                   served, dom, last>>

\* The store answers one storage.local.get with the value it holds now.
ServeRead ==
    /\ requested > 0
    /\ requested' = requested - 1
    /\ served' = served (+) SetToBag({store})
    /\ UNCHANGED <<location, page, prefersDark, store, started, baselineIsDark,
                   notifications, dom, last>>

\* applyFromStorage resumes after its await with the answer `stored`.
ResumeApplyFromStorage(stored) ==
    /\ BagIn(stored, served)
    /\ served' = served (-) SetToBag({stored})
    /\ Handled(applyFromStorage(stored))
    /\ UNCHANGED <<location, page, prefersDark, store, started, baselineIsDark,
                   notifications, requested>>

\* The page changes its own background after load.
PageRestyle ==
    /\ page' \in Pages \ {page}
    /\ UNCHANGED <<location, prefersDark, store, started, baselineIsDark,
                   notifications, requested, served, dom, last>>

Next ==
    \/ (Start /\ UNCHANGED <<normVars, popupVars>>)
    \/ ((\E v \in StoreValues : StoreSet(v)) /\ UNCHANGED <<normVars, popupVars>>)
    \/ (StorageChanged /\ UNCHANGED <<normVars, popupVars>>)
    \/ ((\E area \in {"local", "sync"}, key \in {STORAGE_KEY, "other"} :
            OtherStorageChanged(area, key)) /\ UNCHANGED <<normVars, popupVars>>)
    \/ (SystemSchemeChange /\ UNCHANGED <<normVars, popupVars>>)
    \/ (ServeRead /\ UNCHANGED <<normVars, popupVars>>)
    \/ ((\E stored \in StoreValues : ResumeApplyFromStorage(stored))
            /\ UNCHANGED <<normVars, popupVars>>)
    \/ (PageRestyle /\ UNCHANGED <<normVars, popupVars>>)

Spec == Init /\ [][Next]_vars

\* A step that takes one answer out of `served`: under Next these are exactly
\* the ResumeApplyFromStorage steps, and one is possible whenever an answer waits.
AnswerResumed ==
    \E stored \in BagToSet(served) : served' = served (-) SetToBag({stored})

\* The same behaviours when the store answers every read and every answered
\* applyFromStorage resumes (the event loop runs each continuation).
SpecFair ==
    /\ Spec
    /\ WF_vars(ServeRead /\ UNCHANGED <<normVars, popupVars>>)
    /\ WF_served(AnswerResumed)

(***************************************************************************)
(* normalizeSettings on its own: one call, then a call on its result.      *)
(***************************************************************************)
InitNorm ==
    /\ raw \in RawSettings
    /\ normalized = NotRun
    /\ renormalized = NotRun
    /\ location = [hostname |-> "", host |-> ""]
    /\ page = WhitePage
    /\ prefersDark = FALSE
    /\ store = Undefined
    /\ started = FALSE
    /\ baselineIsDark = JsNull
    /\ notifications = <<>>
    /\ requested = 0
    /\ served = EmptyBag
    /\ dom = NoDom
    /\ last = NoPass
    /\ popup = ClosedPopup
    /\ written = NoWrite

Normalize ==
    /\ normalized = NotRun
    /\ normalized' = normalizeSettings(raw)
    /\ UNCHANGED <<raw, renormalized>>

Renormalize ==
    /\ normalized # NotRun
    /\ renormalized = NotRun
    /\ renormalized' = normalizeSettings(normalized)
    /\ UNCHANGED <<raw, normalized>>

NextNorm ==
    \/ (Normalize /\ UNCHANGED <<scriptVars, popupVars>>)
    \/ (Renormalize /\ UNCHANGED <<scriptVars, popupVars>>)

SpecNorm == InitNorm /\ [][NextNorm]_vars

(***************************************************************************)
(* Vocabulary of the properties.                                           *)
(***************************************************************************)
\* The hostname a pass works with (line 244).
Hostname == IF location.hostname # "" THEN location.hostname ELSE location.host

\* The hostnames that are keys of settings.siteOverrides.
OverrideKeys(settings) == DOMAIN Get(settings, "siteOverrides").props

HasAttr(attr) == attr.t # "null"
IsActive(d) == HasAttr(d.scheme) /\ HasAttr(d.invert) /\ d.styles > 0
IsInactive(d) == ~HasAttr(d.scheme) /\ ~HasAttr(d.invert) /\ d.styles = 0

PassDone == last.handler # "none"

SetAttributeCalls == {i \in 1..Len(last.writes) : last.writes[i].op = "setAttribute"}

ThemeModes == {Str("light"), Str("dark"), Str("system")}

\* The ThemeSettings invariants of theme.ts lines 3-6.
IsThemeSettings(v) ==
    /\ v.t = "object"
    /\ v.cls = "Object"
    /\ DOMAIN v.props = {"defaultMode", "siteOverrides"}
    /\ v.props["defaultMode"] \in ThemeModes
    /\ v.props["siteOverrides"].t = "object"
    /\ v.props["siteOverrides"].cls = "Object"
    /\ \A k \in DOMAIN v.props["siteOverrides"].props :
          v.props["siteOverrides"].props[k] \in ThemeModes

(***************************************************************************)
(* C1.  After every completed resolution pass, for every non-empty         *)
(* hostname: the document is Active (both attributes set, the managed      *)
(* stylesheet present) if and only if the hostname is a key of the         *)
(* normalized settings' siteOverrides, and it carries neither attribute    *)
(* and no stylesheet when the hostname is not a key.                       *)
(***************************************************************************)
C1_ActiveIffOverride ==
    (PassDone /\ Hostname # "") =>
        /\ IsActive(dom) <=> Hostname \in OverrideKeys(last.settings)
        /\ Hostname \notin OverrideKeys(last.settings) => IsInactive(dom)

(***************************************************************************)
(* C2.  When onStorageChanged applies settings in which the current        *)
(* hostname has no override: a document that was Active loses both         *)
(* attributes and the stylesheet in that run, and a document that was      *)
(* Inactive is left as it was, with no attribute set.                      *)
(***************************************************************************)
C2_NoOverrideClears ==
    (last.handler = "onStorageChanged"
        /\ Hostname \notin OverrideKeys(last.settings)) =>
        /\ IsActive(last.before) => IsInactive(dom)
        /\ IsInactive(last.before) => (dom = last.before /\ SetAttributeCalls = {})

(***************************************************************************)
(* C3.  Whenever the document is Active after a resolution pass, the       *)
(* invert attribute is "true" exactly when the resolved scheme disagrees   *)
(* with the cached page brightness: dark on a page that is not dark, or    *)
(* light on a page that is dark.                                           *)
(***************************************************************************)
C3_InvertIffDisagrees ==
    (PassDone /\ IsActive(dom)) =>
        (dom.invert.s = "true" <=>
            \/ (dom.scheme.s = "dark" /\ ~baselineIsDark.b)
            \/ (dom.scheme.s = "light" /\ baselineIsDark.b))

(***************************************************************************)
(* C4.  For a hostname with an override, the applied scheme is the         *)
(* override when that is light or dark, whatever the OS preference and     *)
(* defaultMode are, and is the OS preference at the time of the pass when  *)
(* the override is system.  With override dark and the OS preferring       *)
(* light, the scheme is dark, with invert true on a page sampled like the  *)
(* white page and false on one sampled like the rgb(10,10,10) page.        *)
(***************************************************************************)
C4_SchemeFromOverride ==
    (PassDone /\ Hostname # "" /\ Hostname \in OverrideKeys(last.settings)) =>
        LET mode == Get(Get(last.settings, "siteOverrides"), Hostname)
        IN /\ mode.s \in {"light", "dark"} => dom.scheme = mode
           /\ mode.s = "system" =>
                 dom.scheme = (IF last.prefersDark THEN Str("dark") ELSE Str("light"))
           /\ (mode.s = "dark" /\ ~last.prefersDark) =>
                 /\ dom.scheme = Str("dark")
                 /\ baselineIsDark.b = computePageIsDark(WhitePage) =>
                       dom.invert = Str("true")
                 /\ baselineIsDark.b = computePageIsDark(DarkPage) =>
                       dom.invert = Str("false")

C4_Witness ==
    /\ PassDone
    /\ Hostname \in OverrideKeys(last.settings)
    /\ Get(Get(last.settings, "siteOverrides"), Hostname) = Str("dark")
    /\ Get(last.settings, "defaultMode") = Str("light")
    /\ ~last.prefersDark
    /\ baselineIsDark.b = computePageIsDark(WhitePage)
    /\ dom.invert = Str("true")

(***************************************************************************)
(* C5.  Once no handler work is pending (no change event in flight, no     *)
(* storage read unanswered or unresumed), the DOM is the resolution of the *)
(* stored settings against the current OS preference and the cached page   *)
(* brightness: no stale settings value has overwritten a newer one.        *)
(***************************************************************************)
Quiescent == started /\ notifications = <<>> /\ Reads = 0

C5_QuiescentDomIsCurrent ==
    Quiescent => dom = applyThemeFromSettings(normalizeSettings(store)).m.dom

(***************************************************************************)
(* C6.  baselineIsDark is written at most once, before any resolution      *)
(* pass; every pass, whichever handler started it, uses the cached value   *)
(* and never samples the page background again.                            *)
(***************************************************************************)
C6_BaselineWrittenOnce ==
    /\ [](PassDone =>
            /\ baselineIsDark.t = "boolean"
            /\ ~last.sampled
            /\ (IsActive(dom) /\ dom.scheme.s = "dark") =>
                  dom.invert = Str(IF baselineIsDark.b THEN "false" ELSE "true")
            /\ (IsActive(dom) /\ dom.scheme.s = "light") =>
                  dom.invert = Str(IF baselineIsDark.b THEN "true" ELSE "false"))
    /\ [][baselineIsDark.t = "boolean" => baselineIsDark' = baselineIsDark]_vars

C6_Witness ==
    /\ last.handler = "applyFromStorage"
    /\ IsActive(dom)
    /\ baselineIsDark.t = "boolean"
    /\ computePageIsDark(page) # baselineIsDark.b

(***************************************************************************)
(* C7.  In every reachable state the document holds at most one managed    *)
(* stylesheet, and exactly one whenever an attribute is set; the           *)
(* stylesheet is in place before each attribute is written.                *)
(***************************************************************************)
C7_SingleStylesheet ==
    /\ dom.styles <= 1
    /\ (HasAttr(dom.scheme) \/ HasAttr(dom.invert)) => dom.styles = 1
    /\ \A i \in SetAttributeCalls : last.writes[i].styles = 1

C7_Witness ==
    /\ last.handler = "onStorageChanged"
    /\ IsInactive(last.before)
    /\ IsActive(dom)
    /\ Len(last.writes) = 3
    /\ last.writes[1].op = "appendChild"

(***************************************************************************)
(* C8.  A pass that resolves to the {scheme, invert} already applied is a  *)
(* no-op on the DOM: no second stylesheet element, no change of an         *)
(* attribute.                                                              *)
(***************************************************************************)
C8_ReapplyIsNoOp ==
    (PassDone /\ IsActive(last.before) /\ IsActive(dom)
        /\ dom.scheme = last.before.scheme /\ dom.invert = last.before.invert) =>
        /\ dom = last.before
        /\ \A i \in 1..Len(last.writes) : last.writes[i].op = "setAttribute"

C8_Witness ==
    /\ PassDone
    /\ IsActive(last.before)
    /\ dom = last.before
    /\ Len(last.writes) = 2

(***************************************************************************)
(* C9.  normalizeSettings is total, and its result always satisfies the    *)
(* ThemeSettings invariants: defaultMode is light, dark or system, and     *)
(* every key of siteOverrides maps to light, dark or system.               *)
(***************************************************************************)
C9_NormalizeTotalAndValid ==
    /\ normalized.t = "notrun" => ENABLED Normalize
    /\ normalized.t # "notrun" => IsThemeSettings(normalized)

C9_Witness ==
    /\ normalized.t # "notrun"
    /\ isRecord(raw)
    /\ Get(raw, "defaultMode") = Num(1)
    /\ isRecord(Get(raw, "siteOverrides"))
    /\ \E k \in DOMAIN Get(raw, "siteOverrides").props :
          Get(raw, "siteOverrides").props[k] \notin ThemeModes
    /\ OverrideKeys(normalized) # {}

(***************************************************************************)
(* C10.  normalizeSettings is idempotent: normalizing a normalized value   *)
(* gives the same defaultMode and the same hostname -> mode entries.       *)
(***************************************************************************)
C10_NormalizeIdempotent ==
    renormalized.t # "notrun" => renormalized = normalized

C10_Witness ==
    /\ renormalized.t # "notrun"
    /\ raw # normalized
    /\ OverrideKeys(renormalized) # {}

IsPlainObject(v) == v.t = "object" /\ v.cls = "Object"

(***************************************************************************)
(* C11.  Malformed input degrades to defaults: a raw value that is not a   *)
(* plain key-value object (a string, a number, null, undefined, an array)  *)
(* normalizes to {defaultMode: system, siteOverrides: {}}; and a           *)
(* siteOverrides field that is absent or is not a plain key-value object   *)
(* (a string, an array) gives an empty siteOverrides.                      *)
(***************************************************************************)
C11_MalformedDegrades ==
    normalized.t # "notrun" =>
        /\ ~IsPlainObject(raw) => normalized = defaultSettings
        /\ ~IsPlainObject(Get(raw, "siteOverrides")) => OverrideKeys(normalized) = {}

(***************************************************************************)
(* C12.  normalizeSettings keeps exactly the valid content of its input:   *)
(* defaultMode is the input's when that is light, dark or system, and      *)
(* system otherwise; every key of the input's siteOverrides object is in   *)
(* the result, with the same mode, if and only if its value is exactly     *)
(* light, dark or system; no entry is added.                               *)
(***************************************************************************)
C12_KeepsValidContent ==
    normalized.t # "notrun" =>
        LET given == Get(raw, "siteOverrides")
            kept == Get(normalized, "siteOverrides").props
        IN /\ Get(normalized, "defaultMode") =
                (IF Get(raw, "defaultMode") \in ThemeModes
                 THEN Get(raw, "defaultMode") ELSE Str("system"))
           /\ IsPlainObject(given) =>
                /\ DOMAIN kept \subseteq DOMAIN given.props
                /\ \A k \in DOMAIN given.props :
                      (k \in DOMAIN kept /\ kept[k] = given.props[k])
                          <=> given.props[k] \in ThemeModes

(***************************************************************************)
(* computePageIsDark on its own: one sample of one page, as start() takes  *)
(* it (lines 205-207).                                                     *)
(***************************************************************************)
OpaqueColors ==
    {Rgb(255, 255, 255), Rgb(10, 10, 10), Rgb(11, 11, 11), Rgb(187, 187, 187),
     Rgb(188, 188, 188), Rgb(0, 255, 0), Rgb(0, 0, 255)}

TranslucentColors ==
    {Rgba(0, 0, 0, 0), Rgba(10, 10, 10, 5), Rgba(10, 10, 10, 6),
     Rgba(255, 255, 255, 50)}

RootColors == OpaqueColors \cup TranslucentColors \cup {Unparsed}

SamplePages == [body : RootColors \cup {NoColor}, root : RootColors]

InitSample ==
    /\ raw = Undefined
    /\ normalized = NotRun
    /\ renormalized = NotRun
    /\ location = [hostname |-> "", host |-> ""]
    /\ page \in SamplePages
    /\ prefersDark = FALSE
    /\ store = Undefined
    /\ started = FALSE
    /\ baselineIsDark = JsNull
    /\ notifications = <<>>
    /\ requested = 0
    /\ served = EmptyBag
    /\ dom = NoDom
    /\ last = NoPass
    /\ popup = ClosedPopup
    /\ written = NoWrite

SampleBaseline ==
    /\ baselineIsDark.t = "null"
    /\ baselineIsDark' = Bool(computePageIsDark(page))
    /\ UNCHANGED <<normVars, popupVars, location, page, prefersDark, store,
                   started, notifications, requested, served, dom, last>>

NextSample == SampleBaseline

SpecSample == InitSample /\ [][NextSample]_vars

(***************************************************************************)
(* C13.  Page brightness follows the chain body -> root -> white: the      *)
(* body's background when it reads as rgb()/rgba() with alpha > 0.05, else *)
(* the root's under the same test, else white (255,255,255), so a page     *)
(* with no detectable background is not dark; the page is dark iff the     *)
(* luminance of the chosen colour is < 0.5.                                *)
(***************************************************************************)
UsableBackground(c) == c.fmt \in {"rgb", "rgba"} /\ c.a > 5

ChosenBackground(p) ==
    IF UsableBackground(p.body) THEN p.body
    ELSE IF UsableBackground(p.root) THEN p.root
    ELSE Rgb(255, 255, 255)

C13_BodyRootWhiteChain ==
    baselineIsDark.t = "boolean" =>
        /\ baselineIsDark.b = (relativeLuminance(ChosenBackground(page)) < 50000000)
        /\ (~UsableBackground(page.body) /\ ~UsableBackground(page.root)) =>
              ~baselineIsDark.b

C13_Witness ==
    /\ baselineIsDark.t = "boolean"
    /\ page.body = Rgba(10, 10, 10, 5)
    /\ page.root = Rgb(188, 188, 188)
    /\ ~baselineIsDark.b

(***************************************************************************)
(* C14.  On a page whose hostname is empty every resolution pass forces    *)
(* Inactive (no attribute, no managed stylesheet, no attribute written),   *)
(* whatever the settings hold, an entry under the empty-string key         *)
(* included.                                                               *)
(***************************************************************************)
C14_EmptyHostnameInactive ==
    (PassDone /\ Hostname = "") => (IsInactive(dom) /\ SetAttributeCalls = {})

C14_Witness ==
    /\ PassDone
    /\ Hostname = ""
    /\ "" \in OverrideKeys(last.settings)
    /\ IsInactive(dom)

(***************************************************************************)
(* C15.  A handler run is atomic: once a run holds the settings value it   *)
(* will apply (its storage read has been answered) and until it writes the *)
(* DOM, no other handler run writes the DOM and no other run's read is     *)
(* answered; the only handler step possible is that run's own DOM write.   *)
(***************************************************************************)
C15_HandlerRunsAtomic ==
    [][(BagCardinality(served) > 0 /\
            BagCardinality(served') >= BagCardinality(served))
          => (dom' = dom /\ last' = last /\ served' = served)]_vars

(***************************************************************************)
(* C16.  A flip of the OS dark preference on a started page starts an      *)
(* applyFromStorage run.  While the run's read is unanswered and the       *)
(* stored override of the (non-empty) hostname is system, then, unless the *)
(* preference flips again or the override stops being system, the scheme   *)
(* attribute comes to equal the OS preference and the invert attribute is  *)
(* the one the table gives for that scheme and the cached page brightness. *)
(* A run that finds a light or dark override applies that override and the *)
(* cached brightness whatever the OS preference is, so a DOM that already  *)
(* showed the override keeps its scheme and invert values.                 *)
(***************************************************************************)
SiteMode(stored) == Get(Get(normalizeSettings(stored), "siteOverrides"), Hostname)

SchemeOf(dark) == IF dark THEN Str("dark") ELSE Str("light")

InvertOf(scheme) ==
    Str(IF shouldInvert(scheme, baselineIsDark.b) THEN "true" ELSE "false")

FollowsSystem(stored) ==
    Hostname # "" /\ SiteMode(stored).t = "string" /\ SiteMode(stored).s = "system"

RunPending(dark) ==
    started /\ requested > 0 /\ prefersDark = dark /\ FollowsSystem(store)

SchemeApplied(dark) ==
    /\ dom.scheme.t = "string" /\ dom.scheme = SchemeOf(dark)
    /\ dom.invert.t = "string" /\ dom.invert = InvertOf(SchemeOf(dark))

C16_SystemPreferenceFollowed ==
    /\ [][(started /\ prefersDark' # prefersDark) => requested' = requested + 1]_vars
    /\ \A dark \in BOOLEAN :
          RunPending(dark) ~>
              (SchemeApplied(dark) \/ prefersDark # dark \/ ~FollowsSystem(store))
    /\ [](\A mode \in {"light", "dark"} :
            (/\ last.handler = "applyFromStorage"
             /\ Hostname # ""
             /\ SiteMode(last.settings).t = "string"
             /\ SiteMode(last.settings).s = mode)
            => /\ dom.scheme.t = "string" /\ dom.scheme.s = mode
               /\ dom.invert.t = "string" /\ dom.invert = InvertOf(Str(mode))
               /\ (last.before.scheme.t = "string" /\ last.before.scheme.s = mode)
                     => last.before.invert = dom.invert)

\* A run started by the flip to dark found the system override on a document that
\* showed light, and switched it to dark.
C16_Witness ==
    /\ last.handler = "applyFromStorage"
    /\ FollowsSystem(last.settings)
    /\ last.prefersDark /\ prefersDark
    /\ last.before.scheme.t = "string" /\ last.before.scheme.s = "light"
    /\ SchemeApplied(TRUE)

(***************************************************************************)
(* The popup (App.tsx lines 11-178): one App component from its mount to   *)
(* its unmount, the settings store it shares with every other writer, and  *)
(* the user's clicks.                                                      *)
(***************************************************************************)
MaxUserActions == 1
MaxExternalWrites == 1

\* {...props, [k]: v} and an object literal's own keys: k becomes an own
\* property whatever its name.
DefineProp(props, k, v) ==
    [x \in DOMAIN props \cup {k} |-> IF x = k THEN v ELSE props[x]]

\* props after delete obj[k].
DeleteProp(props, k) == [x \in DOMAIN props \ {k} |-> props[x]]

\* tab?.url of the active tab: a string, with what new URL(url) makes of it.
TabUrl(s, parses, protocol, hostname) ==
    [t |-> "string", s |-> s, parses |-> parses, protocol |-> protocol,
     hostname |-> hostname]

\* Undefined: no active tab, or a tab whose url the popup may not see.
TabUrls ==
    {Undefined,
     TabUrl("", FALSE, "", ""),
     TabUrl("about blank", FALSE, "", ""),
     TabUrl("chrome://extensions/", TRUE, "chrome:", "extensions"),
     TabUrl("https://docs.example/guide", TRUE, "https:", "docs.example"),
     TabUrl("http://constructor/", TRUE, "http:", "constructor"),
     TabUrl("http://__proto__/", TRUE, "http:", "__proto__")}

getHostname(url) ==
    IF ~Truthy(url) THEN JsNull
    ELSE IF ~url.parses THEN JsNull
    ELSE IF url.protocol \in {"http:", "https:"} THEN Str(url.hostname)
    ELSE JsNull

\* What the store can hold when the popup opens, and what another writer can put
\* there: nothing, or settings with overrides of other sites.
PopupStoreValues ==
    {Undefined,
     Settings("dark", [k \in {"other.example"} |-> Str("light")]),
     Settings("light", [k \in {"docs.example", "other.example"} |-> Str("dark")])}

\* Lines 57-58, evaluated on the current React state.
siteMode ==
    IF Truthy(popup.activeHost)
    THEN Get(Get(popup.settings, "siteOverrides"), popup.activeHost.s)
    ELSE Undefined

isSiteEnabled == Truthy(popup.activeHost) /\ Truthy(siteMode)

\* setMode(mode), lines 66-74: the blob it hands to updateSettings.
setMode(mode) ==
    IF ~Truthy(popup.activeHost)
    THEN Obj(DefineProp(popup.settings.props, "defaultMode", Str(mode)))
    ELSE LET nextOverrides ==
                 DefineProp(Get(popup.settings, "siteOverrides").props,
                            popup.activeHost.s, Str(mode))
         IN Obj(DefineProp(DefineProp(popup.settings.props, "defaultMode", Str(mode)),
                           "siteOverrides", Obj(nextOverrides)))

\* Mutant of setSiteOverride: nextOverrides starts empty instead of as a copy.
setSiteOverrideFromEmpty(enabled) ==
    IF ~Truthy(popup.activeHost) THEN Undefined
    ELSE LET mode == IF siteMode.t \in {"undefined", "null"}
                     THEN Get(popup.settings, "defaultMode") ELSE siteMode
             nextOverrides ==
                 IF enabled THEN SetProp(NoProps, popup.activeHost.s, mode)
                 ELSE DeleteProp(NoProps, popup.activeHost.s)
         IN Obj(DefineProp(popup.settings.props, "siteOverrides", Obj(nextOverrides)))

\* setSiteOverride(enabled), lines 76-90: the blob it hands to updateSettings,
\* Undefined when it returns without writing.
setSiteOverride(enabled) ==
    IF ~Truthy(popup.activeHost) THEN Undefined
    ELSE LET copy == Get(popup.settings, "siteOverrides").props
             mode == IF siteMode.t \in {"undefined", "null"}
                     THEN Get(popup.settings, "defaultMode") ELSE siteMode
             nextOverrides ==
                 IF enabled THEN SetProp(copy, popup.activeHost.s, mode)
                 ELSE DeleteProp(copy, popup.activeHost.s)
         IN Obj(DefineProp(popup.settings.props, "siteOverrides", Obj(nextOverrides)))

\* handleStorageChange(changes, area), lines 39-47: the settings state after it.
handleStorageChange(changes, area) ==
    IF area # "local" \/ ~Truthy(Get(changes, STORAGE_KEY)) THEN popup.settings
    ELSE normalizeSettings(Get(Get(changes, STORAGE_KEY), "newValue"))

\* The popup has just mounted: first render with the initial state, the effect
\* has called loadSettings and loadActiveHost and registered the listener.
InitPopup ==
    /\ raw = Undefined
    /\ normalized = NotRun
    /\ renormalized = NotRun
    /\ location = [hostname |-> "", host |-> ""]
    /\ page = WhitePage
    /\ prefersDark = FALSE
    /\ store \in PopupStoreValues
    /\ started = FALSE
    /\ baselineIsDark = JsNull
    /\ notifications = <<>>
    /\ requested = 0
    /\ served = EmptyBag
    /\ dom = NoDom
    /\ last = NoPass
    /\ popup = [ClosedPopup EXCEPT !.mounted = TRUE, !.loadSettings = "awaiting",
                                   !.loadActiveHost = "awaiting"]
    /\ written = NoWrite

popupFrame ==
    <<normVars, location, page, prefersDark, started, baselineIsDark,
      notifications, requested, served, dom, last>>

\* The store answers loadSettings' storage.local.get (line 20).
AnswerLoadSettings ==
    /\ popup.loadSettings = "awaiting"
    /\ popup' = [popup EXCEPT !.loadSettings = "answered", !.stored = store]
    /\ UNCHANGED <<store, written>>

\* loadSettings resumes after its await (lines 21-25).
ResumeLoadSettings ==
    /\ popup.loadSettings = "answered"
    /\ popup' = IF ~popup.mounted
                THEN [popup EXCEPT !.loadSettings = "done"]
                ELSE [popup EXCEPT !.loadSettings = "done",
                                   !.settings = normalizeSettings(popup.stored),
                                   !.isReady = TRUE]
    /\ UNCHANGED <<store, written>>

\* tabs.query answers with the active tab and loadActiveHost resumes (29-33).
ResumeLoadActiveHost(url) ==
    /\ popup.loadActiveHost = "awaiting"
    /\ popup' = IF ~popup.mounted
                THEN [popup EXCEPT !.loadActiveHost = "done"]
                ELSE [popup EXCEPT !.loadActiveHost = "done",
                                   !.activeHost = getHostname(url)]
    /\ UNCHANGED <<store, written>>

\* The oldest change event in flight reaches handleStorageChange.
PopupStorageChanged ==
    /\ popup.changes # <<>>
    /\ popup' = [popup EXCEPT
                   !.changes = Tail(@),
                   !.settings = handleStorageChange(Head(popup.changes).changes,
                                                    Head(popup.changes).area)]
    /\ UNCHANGED <<store, written>>

\* A change of another storage area, or of another key, reaches the listener.
PopupOtherStorageChanged(area, key) ==
    /\ popup.mounted
    /\ area # "local" \/ key # STORAGE_KEY
    /\ LET e == ChangeEvent(area, key, Str("x"))
       IN popup' = [popup EXCEPT !.settings = handleStorageChange(e.changes, e.area)]
    /\ UNCHANGED <<store, written>>

\* updateSettings(next), lines 61-64: the React state is set, the store takes the
\* blob and reports the change to every listener, this popup's included.
updateSettings(next) ==
    /\ popup' = [popup EXCEPT
                   !.settings = next,
                   !.changes = IF next # store
                               THEN Append(@, ChangeEvent("local", STORAGE_KEY, next))
                               ELSE @]
    /\ store' = next

\* What `written` records of a user action that computed the blob `next`.
Written(action, mode, enabled, next) ==
    [action |-> action, mode |-> mode, enabled |-> enabled,
     settings |-> popup.settings, activeHost |-> popup.activeHost,
     stored |-> store, next |-> next,
     actions |-> written.actions + 1, external |-> written.external]

\* A click on one of the three mode buttons (lines 105-115), which are enabled
\* from the first render on.
ModeClicked(mode) ==
    /\ popup.mounted
    /\ written.actions < MaxUserActions
    /\ updateSettings(setMode(mode))
    /\ written' = Written("setMode", mode, FALSE, setMode(mode))

\* A click on the checkbox (lines 136-141): it is disabled without an active
\* host, shows isSiteEnabled, and reports the opposite.
SiteToggled ==
    /\ popup.mounted
    /\ written.actions < MaxUserActions
    /\ Truthy(popup.activeHost)
    /\ LET next == setSiteOverride(~isSiteEnabled)
       IN /\ IF next.t = "undefined"
             THEN UNCHANGED <<popup, store>>
             ELSE updateSettings(next)
          /\ written' = Written("setSiteOverride", "", ~isSiteEnabled, next)

\* Another writer (a second popup window) replaces or removes the settings.
ExternalStoreSet(v) ==
    /\ v # store
    /\ written.external < MaxExternalWrites
    /\ store' = v
    /\ popup' = IF popup.mounted
                THEN [popup EXCEPT
                        !.changes = Append(@, ChangeEvent("local", STORAGE_KEY, v))]
                ELSE popup
    /\ written' = [written EXCEPT !.external = @ + 1]

\* The popup closes: the effect's cleanup of lines 51-54.
Unmount ==
    /\ popup.mounted
    /\ popup' = [popup EXCEPT !.mounted = FALSE, !.changes = <<>>]
    /\ UNCHANGED <<store, written>>

NextPopup ==
    \/ (AnswerLoadSettings /\ UNCHANGED popupFrame)
    \/ (ResumeLoadSettings /\ UNCHANGED popupFrame)
    \/ ((\E url \in TabUrls : ResumeLoadActiveHost(url)) /\ UNCHANGED popupFrame)
    \/ (PopupStorageChanged /\ UNCHANGED popupFrame)
    \/ ((\E area \in {"local", "sync"}, key \in {STORAGE_KEY, "other"} :
            PopupOtherStorageChanged(area, key)) /\ UNCHANGED popupFrame)
    \/ ((\E mode \in {"light", "dark", "system"} : ModeClicked(mode))
            /\ UNCHANGED popupFrame)
    \/ (SiteToggled /\ UNCHANGED popupFrame)
    \/ ((\E v \in PopupStoreValues : ExternalStoreSet(v)) /\ UNCHANGED popupFrame)
    \/ (Unmount /\ UNCHANGED popupFrame)

SpecPopup == InitPopup /\ [][NextPopup]_vars

\* The own entry of siteOverrides under hostname in a stored value, Undefined when
\* there is none.
StoredOverride(value, hostname) ==
    IF IsPlainObject(value) /\ IsPlainObject(Get(value, "siteOverrides"))
       /\ hostname \in DOMAIN Get(value, "siteOverrides").props
    THEN Get(value, "siteOverrides").props[hostname]
    ELSE Undefined

PopupHosts == {"docs.example", "other.example", "constructor", "__proto__"}

WroteBlob == written.action # "none" /\ written.next.t # "undefined"

(***************************************************************************)
(* C17.  Every blob the popup writes to the store satisfies the            *)
(* ThemeSettings invariants and is a fixed point of normalizeSettings.     *)
(***************************************************************************)
C17_WritesNormalizedSettings ==
    WroteBlob =>
        /\ IsThemeSettings(written.next)
        /\ normalizeSettings(written.next) = written.next

(***************************************************************************)
(* C18.  A popup write leaves the stored override of every hostname other  *)
(* than the active host as it was in the store immediately before the      *)
(* write.                                                                  *)
(***************************************************************************)
C18_OtherSitesKept ==
    WroteBlob =>
        \A hostname \in PopupHosts :
            (written.activeHost.t = "string" => hostname # written.activeHost.s)
                => StoredOverride(written.next, hostname)
                     = StoredOverride(written.stored, hostname)

(***************************************************************************)
(* C19.  Relative to the settings the popup held, a user action changes    *)
(* only what it names.  setSiteOverride(false) removes the active host's   *)
(* entry; setSiteOverride(true) sets it to its existing override, else to  *)
(* defaultMode; both keep defaultMode and every other entry.  setMode(mode)*)
(* sets defaultMode to mode and, when a host is active, that host's entry  *)
(* to mode, keeping every other entry.  Without an active host             *)
(* setSiteOverride writes nothing.                                         *)
(***************************************************************************)
OthersKept(olds, news, host) ==
    \A k \in (DOMAIN olds \cup DOMAIN news) \ {host} :
        k \in DOMAIN olds /\ k \in DOMAIN news /\ news[k] = olds[k]

C19_ActionsChangeOnlyNamed ==
    LET before == written.settings
        next == written.next
        active == Truthy(written.activeHost)
        host == IF active THEN written.activeHost.s ELSE "no active host"
        olds == Get(before, "siteOverrides").props
        news == Get(next, "siteOverrides").props
    IN /\ (written.action = "setSiteOverride" /\ ~active) => next.t = "undefined"
       /\ (written.action = "setSiteOverride" /\ active) =>
            /\ IsPlainObject(next)
            /\ DOMAIN next.props = {"defaultMode", "siteOverrides"}
            /\ next.props["defaultMode"] = before.props["defaultMode"]
            /\ OthersKept(olds, news, host)
            /\ ~written.enabled => host \notin DOMAIN news
            /\ written.enabled =>
                 /\ host \in DOMAIN news
                 /\ news[host] = (IF host \in DOMAIN olds THEN olds[host]
                                  ELSE before.props["defaultMode"])
       /\ written.action = "setMode" =>
            /\ IsPlainObject(next)
            /\ DOMAIN next.props = {"defaultMode", "siteOverrides"}
            /\ next.props["defaultMode"] = Str(written.mode)
            /\ OthersKept(olds, news, host)
            /\ active => (host \in DOMAIN news /\ news[host] = Str(written.mode))

\* The checkbox was switched on for docs.example while another site had an
\* override: the new entry is defaultMode and the other entry is still there.
C19_Witness ==
    /\ written.action = "setSiteOverride"
    /\ written.enabled
    /\ written.activeHost = Str("docs.example")
    /\ "other.example" \in OverrideKeys(written.settings)
    /\ "other.example" \in OverrideKeys(written.next)
    /\ Get(Get(written.next, "siteOverrides"), "docs.example")
         = Get(written.settings, "defaultMode")

====
